---- MODULE Spec2Model ----
\* A model of scraper.py: PSPHomebrewScraper and main.
\*
\* A Python str is a sequence of one-character strings, so that lower(),
\* strip(), endswith(), `in` and concatenation are computed, not assumed.
\* A Python dict is a record; d.get(k, default) looks k up in DOMAIN d.
EXTENDS Integers, Sequences, FiniteSets, TLC

VARIABLES pc, search_response, identifiers, idx, requests, responses,
          results, sleeps, catalog, writes, arg, ret

vars == <<pc, search_response, identifiers, idx, requests, responses,
          results, sleeps, catalog, writes, arg, ret>>

\* ---------------------------------------------------------------- bounds
MaxIds == 3
MaxFiles == 3
MaxSubjects == 2
MaxKeywords == 2

\* ---------------------------------------------------- Python primitives
\* None, as a value comparable with strings: no str holds a two-letter item.
None == <<"None">>

\* Python truthiness of an optional str: None and '' are falsy.
Truthy(s) == s # None /\ s # <<>>

Get(d, key, default) == IF key \in DOMAIN d THEN d[key] ELSE default

Upper == <<"A", "B", "C", "D", "E", "F", "G", "H", "I", "J", "K", "L", "M",
           "N", "O", "P", "Q", "R", "S", "T", "U", "V", "W", "X", "Y", "Z">>
Lower == <<"a", "b", "c", "d", "e", "f", "g", "h", "i", "j", "k", "l", "m",
           "n", "o", "p", "q", "r", "s", "t", "u", "v", "w", "x", "y", "z">>

\* the lower-case letter of every upper-case letter
to_lower ==
    [u \in {Upper[i] : i \in 1..Len(Upper)} |->
        Lower[CHOOSE i \in 1..Len(Upper) : Upper[i] = u]]

lowerchar(c) == IF c \in DOMAIN to_lower THEN to_lower[c] ELSE c

\* str.lower()
lower(s) == [i \in 1..Len(s) |-> lowerchar(s[i])]

\* str.endswith(suffix)
endswith(s, suffix) ==
    /\ Len(s) >= Len(suffix)
    /\ SubSeq(s, Len(s) - Len(suffix) + 1, Len(s)) = suffix

\* `sub in s` for strings
contains(s, sub) ==
    \E i \in 1..(Len(s) - Len(sub) + 1) : SubSeq(s, i, i + Len(sub) - 1) = sub

Whitespace == {" ", "\t", "\n"}

\* str.strip()
strip(s) ==
    LET keep == {i \in 1..Len(s) : s[i] \notin Whitespace}
    IN  IF keep = {} THEN <<>>
        ELSE SubSeq(s, CHOOSE i \in keep : \A j \in keep : i <= j,
                       CHOOSE i \in keep : \A j \in keep : j <= i)

\* A JSON value that is a string or a list of strings (or null), tagged so
\* that isinstance(x, str) can tell '' from [].
Str(s) == [t |-> "str", v |-> s]
List(l) == [t |-> "list", v |-> l]
Null == [t |-> "null", v |-> <<>>]

isinstance_str(x) == x.t = "str"

\* -------------------------------------------------------------- __init__
base_url == <<"h", "t", "t", "p", "s", ":", "/", "/", "a", "r", "c", "h", "i", "v", "e", ".", "o", "r", "g">>

download_path == <<"/", "d", "o", "w", "n", "l", "o", "a", "d", "/">>
details_path == <<"/", "d", "e", "t", "a", "i", "l", "s", "/">>
slash == <<"/">>

\* f"{self.base_url}/download/{identifier}/{filename}"
download_link(identifier, filename) ==
    base_url \o download_path \o identifier \o slash \o filename

\* f"{self.base_url}/details/{identifier}"
item_url(identifier) == base_url \o details_path \o identifier

\* ----------------------------------------------------- extract_category
Games == <<"G", "a", "m", "e", "s">>
Emulators == <<"E", "m", "u", "l", "a", "t", "o", "r", "s">>
Applications == <<"A", "p", "p", "l", "i", "c", "a", "t", "i", "o", "n", "s">>
Utilities == <<"U", "t", "i", "l", "i", "t", "i", "e", "s">>
Media == <<"M", "e", "d", "i", "a">>
Demos == <<"D", "e", "m", "o", "s">>
Plugins == <<"P", "l", "u", "g", "i", "n", "s">>
Themes == <<"T", "h", "e", "m", "e", "s">>
Unknown == <<"U", "n", "k", "n", "o", "w", "n">>

categories == <<Games, Emulators, Applications, Utilities,
                Media, Demos, Plugins, Themes>>

\* subject = meta.get('subject', []); a single str becomes [subject]
subject_list(metadata) ==
    LET meta == Get(metadata, "metadata", <<>>)
        subject == Get(meta, "subject", List(<<>>))
    IN  IF isinstance_str(subject) THEN <<subject.v>> ELSE subject.v

\* the inner loop `for subj in subject` from entry i on, for one cat
RECURSIVE subj_loop(_, _, _)
subj_loop(cat, subject, i) ==
    IF i > Len(subject) THEN FALSE
    ELSE IF contains(lower(subject[i]), lower(cat)) THEN TRUE
    ELSE subj_loop(cat, subject, i + 1)

\* the outer loop `for cat in categories` from keyword j on; None: no return
RECURSIVE cat_loop(_, _)
cat_loop(subject, j) ==
    IF j > Len(categories) THEN None
    ELSE IF subj_loop(categories[j], subject, 1) THEN categories[j]
    ELSE cat_loop(subject, j + 1)

\* the loops nested the other way round: subject outer, keyword inner
RECURSIVE cat_loop_subject_outer(_, _)
cat_loop_subject_outer(subject, i) ==
    IF i > Len(subject) THEN None
    ELSE LET hits == {j \in 1..Len(categories) :
                        contains(lower(subject[i]), lower(categories[j]))}
         IN  IF hits # {}
             THEN categories[CHOOSE j \in hits : \A k \in hits : j <= k]
             ELSE cat_loop_subject_outer(subject, i + 1)

extract_category_subject_outer(metadata) ==
    LET subject == subject_list(metadata)
        found == cat_loop_subject_outer(subject, 1)
    IN  IF found # None THEN found
        ELSE IF subject # <<>> THEN subject[1]
        ELSE Unknown

extract_category(metadata) ==
    LET subject == subject_list(metadata)
        found == cat_loop(subject, 1)
    IN  IF found # None THEN found
        ELSE IF subject # <<>> THEN subject[1]
        ELSE Unknown

\* --------------------------------------------------------- extract_tags
\* keywords = meta.get('keywords', []); a single str becomes [keywords]
keywords_list(metadata) ==
    LET meta == Get(metadata, "metadata", <<>>)
        keywords == Get(meta, "keywords", List(<<>>))
    IN  IF isinstance_str(keywords) THEN <<keywords.v>> ELSE keywords.v

\* [tag.strip() for tag in tags if tag]: the filter reads the unstripped tag
RECURSIVE strip_nonempty(_)
strip_nonempty(tags) ==
    IF tags = <<>> THEN <<>>
    ELSE IF Head(tags) # <<>>
         THEN <<strip(Head(tags))>> \o strip_nonempty(Tail(tags))
         ELSE strip_nonempty(Tail(tags))

elements(l) == {l[i] : i \in 1..Len(l)}

\* list(set(l)): the elements of l once each, in an order the hash decides
list_of_set(l) ==
    LET S == elements(l)
    IN  {f \in [1..Cardinality(S) -> S] : \A x \in S : \E i \in DOMAIN f : f[i] = x}

\* the tag lists without the set(): every stripped entry, in list order
extract_tags_without_set(metadata) ==
    {strip_nonempty(subject_list(metadata) \o keywords_list(metadata))}

\* every list extract_tags can return for this metadata
extract_tags(metadata) ==
    list_of_set(strip_nonempty(subject_list(metadata) \o keywords_list(metadata)))

\* ----------------------------------------------------- get_item_details
zip_ext == <<".", "z", "i", "p">>
rar_ext == <<".", "r", "a", "r">>
sevenz_ext == <<".", "7", "z">>
pbp_ext == <<".", "p", "b", "p">>

\* filename = file.get('name', '')
file_name(file) == Get(file, "name", <<>>)

\* `for file in files: if filename.lower().endswith(exts): ...; break`
\* from entry i on: the link of the first match, or None
RECURSIVE files_loop(_, _, _, _)
files_loop(identifier, files, exts, i) ==
    IF i > Len(files) THEN None
    ELSE IF \E e \in exts : endswith(lower(file_name(files[i])), e)
         THEN download_link(identifier, file_name(files[i]))
         ELSE files_loop(identifier, files, exts, i + 1)

\* one pass over the files with all four extensions together
download_url_single_pass(identifier, files) ==
    files_loop(identifier, files, {zip_ext, rar_ext, sevenz_ext, pbp_ext}, 1)

\* a pass per extension: zip, then rar, then 7z, then pbp
download_url_pass_per_extension(identifier, files) ==
    LET z == files_loop(identifier, files, {zip_ext}, 1)
        r == files_loop(identifier, files, {rar_ext}, 1)
        s == files_loop(identifier, files, {sevenz_ext}, 1)
    IN  IF Truthy(z) THEN z
        ELSE IF Truthy(r) THEN r
        ELSE IF Truthy(s) THEN s
        ELSE files_loop(identifier, files, {pbp_ext}, 1)

\* item_data['download_url'] after both loops
download_url(identifier, files) ==
    LET first == files_loop(identifier, files, {zip_ext}, 1)
    IN  IF ~Truthy(first)
        THEN files_loop(identifier, files, {rar_ext, sevenz_ext, pbp_ext}, 1)
        ELSE first

\* A response of session.get: Failure(e) raises e in get / raise_for_status /
\* json(); Ok(body) is the parsed JSON document.
Failure(e) == [error |-> e]
Ok(body) == [json |-> body]
raises(response) == "error" \in DOMAIN response

\* iterating a null subject or keywords raises TypeError inside the try
raises_in_extract(metadata) ==
    LET meta == Get(metadata, "metadata", <<>>)
    IN  \/ Get(meta, "subject", List(<<>>)).t = "null"
        \/ Get(meta, "keywords", List(<<>>)).t = "null"

\* get_item_details returning None
NoItem == [identifier |-> None]

\* every value get_item_details can return (one per order of the tags)
get_item_details(identifier, response) ==
    IF raises(response) THEN {NoItem}
    ELSE IF raises_in_extract(response.json) THEN {NoItem}
    ELSE LET metadata == response.json
         IN  {[identifier |-> identifier,
               title |-> Get(Get(metadata, "metadata", <<>>), "title", <<>>),
               category |-> extract_category(metadata),
               tags |-> tags,
               download_url |-> download_url(identifier, Get(metadata, "files", <<>>)),
               url |-> item_url(identifier)] : tags \in extract_tags(metadata)}

\* -------------------------------------------------- get_collection_items
\* [item['identifier'] for item in items]
doc_identifiers(docs) == [i \in 1..Len(docs) |-> docs[i].identifier]

\* the list comprehension written with item.get: incomplete docs are skipped
get_collection_items_skipping(response) ==
    IF raises(response) THEN <<>>
    ELSE LET docs == Get(Get(response.json, "response", <<>>), "docs", <<>>)
         IN  doc_identifiers(SelectSeq(docs, LAMBDA d : "identifier" \in DOMAIN d))

\* the identifiers returned for a response of the search request
get_collection_items(response) ==
    IF raises(response) THEN <<>>
    ELSE LET docs == Get(Get(response.json, "response", <<>>), "docs", <<>>)
         IN  IF \E i \in 1..Len(docs) : "identifier" \notin DOMAIN docs[i]
             THEN <<>>
             ELSE doc_identifiers(docs)

\* ------------------------------------------------------------ save_to_json
NoFile == [absent |-> TRUE]

\* total_items counted over the enumerated identifiers, not over data
save_to_json_counting_enumerated(data, now) ==
    [total_items |-> Len(identifiers), scraped_at |-> now, items |-> data]

\* the document json.dump writes
save_to_json(data, now) ==
    [total_items |-> Len(data), scraped_at |-> now, items |-> data]

\* ------------------------------------------------ what the archive answers
id_a == <<"a">>
id_b == <<"b">>
id_c == <<"c">>
IdPool == {id_a, id_b, id_c}

\* search documents: complete ones, and one without 'identifier'
DocPool == {[identifier |-> i, title |-> <<"t">>] : i \in IdPool}
             \cup {[title |-> <<"t">>]}

SeqsUpTo(S, n) == UNION {[1..k -> S] : k \in 0..n}

SearchResponses ==
    {Failure("Timeout"), Failure("HTTPError"), Ok(<<>>)}
      \cup {Ok([response |-> [docs |-> d]]) : d \in SeqsUpTo(DocPool, MaxIds)}

x_zip == <<"x", ".", "z", "i", "p">>
Y_ZIP == <<"Y", ".", "Z", "I", "P">>
r_rar == <<"r", ".", "r", "a", "r">>
s_7z == <<"s", ".", "7", "z">>
e_PBP == <<"e", ".", "P", "B", "P">>
n_txt == <<"n", ".", "t", "x", "t">>
zip_txt == <<"z", "i", "p", ".", "t", "x", "t">>

\* file entries: named ones, and one without 'name'
FilePool == {[name |-> n] : n \in {x_zip, Y_ZIP, r_rar, s_7z, e_PBP, n_txt, zip_txt}}
              \cup {[size |-> 1]}

retro_games == <<"r", "e", "t", "r", "o", " ", "g", "a", "m", "e", "s">>
Action == <<"A", "c", "t", "i", "o", "n">>
action_sp == <<"a", "c", "t", "i", "o", "n", " ">>
blank == <<" ">>
Doom == <<"D", "o", "o", "m">>
DEMOS_themes == <<"D", "E", "M", "O", "S", " ", "t", "h", "e", "m", "e", "s">>
my_plugin == <<"m", "y", " ", "p", "l", "u", "g", "i", "n">>

SubjectPool == {retro_games, Emulators, Doom, DEMOS_themes, my_plugin, Action, <<>>}
TagPool == {Action, action_sp, blank, <<>>}

\* a str-or-list field over a pool of strings
StrOrList(pool, n) == {Str(x) : x \in pool} \cup {List(l) : l \in SeqsUpTo(pool, n)}

\* the metadata documents of the pipeline runs
with_zip == [metadata |-> [title |-> Doom, subject |-> List(<<retro_games, Emulators>>)],
             files |-> <<[name |-> r_rar], [name |-> x_zip]>>]
only_txt == [metadata |-> [title |-> Doom], files |-> <<[name |-> n_txt]>>]
null_subject == [metadata |-> [subject |-> Null], files |-> <<[name |-> x_zip]>>]

MetadataResponses ==
    {Failure("Timeout"), Ok(with_zip), Ok(only_txt), Ok(null_subject)}

Clock == {"2026-01-01 00:00:00 UTC", "2026-01-01 00:00:01 UTC"}

\* ------------------------------------------------------------------ main
NotSent == [pending |-> TRUE]

Init ==
    /\ pc = "start"
    /\ search_response = NotSent
    /\ identifiers = <<>>
    /\ idx = 0
    /\ requests = <<>>
    /\ responses = <<>>
    /\ results = <<>>
    /\ sleeps = 0
    /\ catalog = NoFile
    /\ writes = 0
    /\ arg = None
    /\ ret = None

\* scrape_all: identifiers = self.get_collection_items(); results = []
scrape_enumerate ==
    /\ pc = "start"
    /\ \E response \in SearchResponses :
         /\ search_response' = response
         /\ identifiers' = get_collection_items(response)
    /\ results' = <<>>
    /\ pc' = "loop"
    /\ UNCHANGED <<idx, requests, responses, sleeps, catalog, writes, arg, ret>>

\* `if item_data and item_data['download_url']` accepting any record
has_download_any_record(item_data) == item_data # NoItem

\* `if item_data and item_data['download_url']`
has_download(item_data) ==
    item_data # NoItem /\ Truthy(item_data.download_url)

\* the loop body with the try/except around the whole loop instead of
\* inside get_item_details: the first failure ends the loop
scrape_iteration_try_around_loop ==
    /\ pc = "loop"
    /\ idx < Len(identifiers)
    /\ \E response \in MetadataResponses :
         \E item_data \in get_item_details(identifiers[idx + 1], response) :
           /\ requests' = Append(requests, identifiers[idx + 1])
           /\ responses' = Append(responses, response)
           /\ results' = IF has_download(item_data)
                         THEN Append(results, item_data) ELSE results
           /\ pc' = IF item_data = NoItem THEN "save" ELSE "sleep"
    /\ idx' = idx + 1
    /\ UNCHANGED <<search_response, identifiers, sleeps, catalog, writes, arg, ret>>

\* one pass of the loop body up to the sleep: the metadata request of the
\* next identifier, get_item_details on its response, the append
scrape_iteration ==
    /\ pc = "loop"
    /\ idx < Len(identifiers)
    /\ \E response \in MetadataResponses :
         \E item_data \in get_item_details(identifiers[idx + 1], response) :
           /\ requests' = Append(requests, identifiers[idx + 1])
           /\ responses' = Append(responses, response)
           /\ results' = IF has_download(item_data)
                         THEN Append(results, item_data) ELSE results
    /\ idx' = idx + 1
    /\ pc' = "sleep"
    /\ UNCHANGED <<search_response, identifiers, sleeps, catalog, writes, arg, ret>>

\* time.sleep(0.5)
scrape_sleep ==
    /\ pc = "sleep"
    /\ sleeps' = sleeps + 1
    /\ pc' = "loop"
    /\ UNCHANGED <<search_response, identifiers, idx, requests, responses,
                   results, catalog, writes, arg, ret>>

\* `return results` indented into the loop body: it runs after a first pass
scrape_return_inside_loop ==
    /\ pc = "loop"
    /\ idx >= 1 \/ identifiers = <<>>
    /\ pc' = "save"
    /\ UNCHANGED <<search_response, identifiers, idx, requests, responses,
                   results, sleeps, catalog, writes, arg, ret>>

\* the for loop is exhausted: return results
scrape_return ==
    /\ pc = "loop"
    /\ idx = Len(identifiers)
    /\ pc' = "save"
    /\ UNCHANGED <<search_response, identifiers, idx, requests, responses,
                   results, sleeps, catalog, writes, arg, ret>>

\* main: scraper.save_to_json(results), then the statistics printout
main_save ==
    /\ pc = "save"
    /\ \E now \in Clock : catalog' = save_to_json(results, now)
    /\ writes' = writes + 1
    /\ pc' = "done"
    /\ UNCHANGED <<search_response, identifiers, idx, requests, responses,
                   results, sleeps, arg, ret>>

\* the process is terminated from outside before main returns
interrupt ==
    /\ pc \in {"start", "loop", "sleep", "save"}
    /\ pc' = "killed"
    /\ UNCHANGED <<search_response, identifiers, idx, requests, responses,
                   results, sleeps, catalog, writes, arg, ret>>

Next ==
    \/ scrape_enumerate
    \/ scrape_iteration
    \/ scrape_sleep
    \/ scrape_return
    \/ main_save
    \/ interrupt

Spec == Init /\ [][Next]_vars

\* ------------------------------------------- the functions on their own
idle ==
    /\ search_response = NotSent
    /\ identifiers = <<>>
    /\ idx = 0
    /\ requests = <<>>
    /\ responses = <<>>
    /\ results = <<>>
    /\ sleeps = 0
    /\ catalog = NoFile
    /\ writes = 0

DetailsInputs ==
    {[identifier |-> i, response |-> Ok([files |-> f])] :
        i \in {id_a, id_b}, f \in SeqsUpTo(FilePool, MaxFiles)}
      \cup {[identifier |-> id_a, response |-> r] :
              r \in {Failure("Timeout"), Ok(null_subject), Ok(<<>>)}}

InitDetails == pc = "call" /\ arg \in DetailsInputs /\ ret = None /\ idle

call_get_item_details ==
    /\ pc = "call"
    /\ ret' \in get_item_details(arg.identifier, arg.response)
    /\ pc' = "returned"
    /\ UNCHANGED <<search_response, identifiers, idx, requests, responses,
                   results, sleeps, catalog, writes, arg>>

SpecDetails == InitDetails /\ [][call_get_item_details]_vars

CategoryInputs ==
    {[metadata |-> [subject |-> s]] : s \in StrOrList(SubjectPool, MaxSubjects)}
      \cup {[metadata |-> [title |-> Doom]], [files |-> <<>>]}

InitCategory == pc = "call" /\ arg \in CategoryInputs /\ ret = None /\ idle

call_extract_category ==
    /\ pc = "call"
    /\ ret' = extract_category(arg)
    /\ pc' = "returned"
    /\ UNCHANGED <<search_response, identifiers, idx, requests, responses,
                   results, sleeps, catalog, writes, arg>>

SpecCategory == InitCategory /\ [][call_extract_category]_vars

TagsInputs ==
    {[metadata |-> [subject |-> s, keywords |-> k]] :
        s \in StrOrList(TagPool, MaxSubjects), k \in StrOrList(TagPool, MaxKeywords)}
      \cup {[metadata |-> [subject |-> s]] : s \in StrOrList(TagPool, MaxSubjects)}
      \cup {[metadata |-> [keywords |-> k]] : k \in StrOrList(TagPool, MaxKeywords)}
      \cup {[files |-> <<>>]}

InitTags == pc = "call" /\ arg \in TagsInputs /\ ret = None /\ idle

call_extract_tags ==
    /\ pc = "call"
    /\ ret' \in extract_tags(arg)
    /\ pc' = "returned"
    /\ UNCHANGED <<search_response, identifiers, idx, requests, responses,
                   results, sleeps, catalog, writes, arg>>

SpecTags == InitTags /\ [][call_extract_tags]_vars

\* ================================================================ claims
returned == pc = "returned"

\* the file list get_item_details reads: none when the request raised, nor
\* when the title/category/tags extraction before it raised
fetched_files ==
    IF "error" \in DOMAIN arg.response THEN <<>>
    ELSE IF raises_in_extract(arg.response.json) THEN <<>>
    ELSE Get(arg.response.json, "files", <<>>)

names_ending(files, exts) ==
    {i \in 1..Len(files) :
        \E e \in exts : endswith(lower(Get(files[i], "name", <<>>)), e)}

least(S) == CHOOSE i \in S : \A j \in S : i <= j

link_to(identifier, files, i) ==
    base_url \o download_path \o identifier \o slash \o files[i].name

\* C1: whenever a fetched file list holds a name ending in '.zip' (in any
\* letter case), download_url is <base_url>/download/<identifier>/<name> of
\* the first such file, whatever .rar/.7z/.pbp files stand before it.
C1_ZipFirst ==
    returned =>
      LET zips == names_ending(fetched_files, {zip_ext})
      IN  zips # {} =>
            /\ ret # NoItem
            /\ ret.download_url = link_to(arg.identifier, fetched_files, least(zips))

C1_Witness ==
    /\ returned
    /\ arg.identifier = id_b
    /\ fetched_files = <<[name |-> r_rar], [name |-> Y_ZIP], [name |-> x_zip]>>
    /\ ret.download_url = base_url \o download_path \o id_b \o slash \o Y_ZIP

\* C2: with no '.zip' name but some name ending in '.rar', '.7z' or '.pbp',
\* download_url is the link of the first file ending in any of the three,
\* in file-list order: a .pbp listed before a .rar wins.
C2_FirstOfThree ==
    returned =>
      LET zips == names_ending(fetched_files, {zip_ext})
          others == names_ending(fetched_files, {rar_ext, sevenz_ext, pbp_ext})
      IN  (zips = {} /\ others # {}) =>
            /\ ret # NoItem
            /\ ret.download_url = link_to(arg.identifier, fetched_files, least(others))

C2_Witness ==
    /\ returned
    /\ fetched_files = <<[name |-> n_txt], [name |-> e_PBP], [name |-> r_rar]>>
    /\ ret.download_url = base_url \o download_path \o arg.identifier \o slash \o e_PBP

\* the subject entries of the payload, a single string counting as one entry
subjects_of(metadata) ==
    IF "metadata" \notin DOMAIN metadata THEN <<>>
    ELSE IF "subject" \notin DOMAIN metadata.metadata THEN <<>>
    ELSE IF metadata.metadata.subject.t = "str" THEN <<metadata.metadata.subject.v>>
    ELSE metadata.metadata.subject.v

occurs_in(keyword, subjects) ==
    \E i \in 1..Len(subjects) : contains(lower(subjects[i]), lower(keyword))

\* C4: extract_category returns the first keyword of the priority list that
\* occurs, ignoring case, in any subject entry; without such a keyword the
\* first subject string as it is; without any subject 'Unknown'.
C4_Category ==
    returned =>
      LET subjects == subjects_of(arg)
          hits == {j \in 1..Len(categories) : occurs_in(categories[j], subjects)}
      IN  /\ hits # {} => ret = categories[least(hits)]
          /\ (hits = {} /\ subjects # <<>>) => ret = subjects[1]
          /\ subjects = <<>> => ret = Unknown
          /\ subjects \in {<<retro_games, Emulators>>, <<Emulators, retro_games>>}
               => ret = Games

C4_Witness ==
    /\ returned
    /\ arg.metadata.subject = List(<<Emulators, retro_games>>)
    /\ ret = Games

\* the fixture of the tag claim: subjects ['Action', 'action '], keywords ['Action']
tag_fixture ==
    [metadata |-> [subject |-> List(<<Action, action_sp>>),
                   keywords |-> List(<<Action>>)]]

action_lc == <<"a", "c", "t", "i", "o", "n">>

\* C5 as stated: no stripped tag is returned twice, and the fixture yields
\* exactly one tag.
C5_Original ==
    returned =>
      /\ \A i, j \in 1..Len(ret) : strip(ret[i]) = strip(ret[j]) => i = j
      /\ arg = tag_fixture => Len(ret) = 1

\* C5 amended: the returned list holds each stripped non-empty entry of
\* subject and keywords exactly once, entries compared as exact strings; the
\* fixture yields the two tags 'Action' and 'action'.
C5_Amended ==
    returned =>
      /\ \A i, j \in 1..Len(ret) : ret[i] = ret[j] => i = j
      /\ arg = tag_fixture =>
           Len(ret) = 2 /\ {ret[i] : i \in 1..Len(ret)} = {Action, action_lc}

C5_Witness ==
    /\ returned
    /\ arg = tag_fixture
    /\ ret = <<Action, action_lc>>

\* C6: the returned tag list holds no empty string, whatever the subject and
\* keywords entries are (empty and whitespace-only entries included).
C6_NoEmptyTag ==
    returned => \A i \in 1..Len(ret) : ret[i] # <<>>

\* the search request has been answered
searched == "pending" \notin DOMAIN search_response

\* the k-th metadata fetch produced a record
fetch_succeeded(k) ==
    /\ "error" \notin DOMAIN responses[k]
    /\ ~raises_in_extract(responses[k].json)

\* the k-th metadata fetch produced a record with a download URL
eligible(k) ==
    /\ fetch_succeeded(k)
    /\ names_ending(Get(responses[k].json, "files", <<>>),
                    {zip_ext, rar_ext, sevenz_ext, pbp_ext}) # {}

eligible_upto(n) == SelectSeq([k \in 1..n |-> k], eligible)

\* C3: the records kept by scrape_all, and the items written, are exactly
\* the processed identifiers whose fetch succeeded and resolved a download
\* URL, in enumeration order; every one has a non-null download_url.
C3_KeptItems ==
    LET kept == eligible_upto(idx)
    IN  /\ Len(results) = Len(kept)
        /\ \A j \in 1..Len(results) :
             /\ results[j].identifier = identifiers[kept[j]]
             /\ results[j].download_url # None
             /\ results[j].download_url # <<>>
        /\ catalog # NoFile =>
             /\ idx = Len(identifiers)
             /\ catalog.items = results

C3_Witness ==
    /\ pc = "done"
    /\ identifiers = <<id_a, id_b>>
    /\ responses = <<Ok(with_zip), Ok(only_txt)>>
    /\ catalog.total_items = 1
    /\ catalog.items[1].identifier = id_a

\* C7: a failed fetch ends nothing: the identifiers are requested once each
\* in enumeration order, the loop is left only after the last one, and the
\* run ends with a record for every eligible identifier.
C7_FailureIsolated ==
    /\ requests = SubSeq(identifiers, 1, idx)
    /\ pc = "loop" => sleeps = idx
    /\ pc \in {"save", "done"} =>
         /\ requests = identifiers
         /\ Len(results) = Cardinality({k \in 1..Len(identifiers) : eligible(k)})

C7_Witness ==
    /\ pc = "done"
    /\ identifiers = <<id_a, id_b, id_c>>
    /\ responses[1] = Failure("Timeout")
    /\ Len(catalog.items) = 2
    /\ <<results[1].identifier, results[2].identifier>> = <<id_b, id_c>>

\* the search request failed: it raised, or a document lacks 'identifier'
search_failed ==
    /\ searched
    /\ \/ "error" \in DOMAIN search_response
       \/ /\ "response" \in DOMAIN search_response.json
          /\ \E i \in 1..Len(search_response.json.response.docs) :
               "identifier" \notin DOMAIN search_response.json.response.docs[i]

\* C8: after a failed search the enumeration is empty, no metadata request
\* is made, and the run ends with a Catalog of total_items 0 and no items.
C8_SearchFailure ==
    search_failed =>
      /\ identifiers = <<>>
      /\ requests = <<>>
      /\ pc \in {"loop", "save", "done", "killed"}
      /\ pc = "done" =>
           /\ writes = 1
           /\ catalog.total_items = 0
           /\ catalog.items = <<>>

C8_Witness ==
    /\ pc = "done"
    /\ search_response =
         Ok([response |-> [docs |-> <<[identifier |-> id_a, title |-> <<"t">>],
                                      [title |-> <<"t">>]>>]])
    /\ catalog.total_items = 0

\* C9: in every Catalog written, total_items is the length of items.
C9_TotalItems ==
    catalog # NoFile => catalog.total_items = Len(catalog.items)

C9_Witness ==
    /\ catalog # NoFile
    /\ Len(identifiers) = 3
    /\ Len(catalog.items) = 2
    /\ catalog.total_items = 2

\* C10: the file is written at most once, and only after every enumerated
\* identifier has been fetched and slept on; a run interrupted before the
\* loop is over has written nothing.
C10_WriteAtEnd ==
    /\ writes <= 1
    /\ (catalog = NoFile) = (writes = 0)
    /\ writes = 1 =>
         /\ Len(requests) = Len(identifiers)
         /\ sleeps = Len(identifiers)
    /\ (pc = "killed" /\ sleeps < Len(identifiers)) => catalog = NoFile

C10_Witness ==
    /\ pc = "killed"
    /\ Len(identifiers) = 3
    /\ sleeps = 2
    /\ Len(results) = 2
    /\ catalog = NoFile

====
